---- MODULE Spec2Model ----
(***************************************************************************)
(* A model of the retrieval engine of the YOK thesis scraper:              *)
(*   src/src/utils.py            RateLimiter, SimpleCache, build_cache_key *)
(*   src/src/httpx_scraper.py    HttpxYOKScraper                           *)
(*   src/src/selenium_scraper.py SeleniumYOKScraper                        *)
(*   src/src/scraper.py          YOKThesisScraper                          *)
(* Time is counted in whole seconds.  An optional value (Python's None or  *)
(* a value) is a sequence of length 0 or 1.                                *)
(***************************************************************************)
EXTENDS Integers, Sequences, FiniteSets, TLC

VARIABLES
    now,                \* the clock read by time.time() / datetime.now()
    min_delay,          \* RateLimiter.min_delay
    last_request_time,  \* RateLimiter.last_request_time
    rl_lock,            \* RateLimiter._lock: its holder, or None
    wakeAt,             \* per task: when its asyncio.sleep may return
    pc,                 \* per task: where the task is
    reads,              \* history: the last_request_time each wait() read
    stamps,             \* history: <<task, time>> of each wait() return
    firstStart,         \* history: when the first wait() was called
    cache,              \* SimpleCache._cache: key -> None or <<value, expiry>>
    lastSet,            \* history: per key, the latest set: value, time, ttl
    got,                \* history: the get() that has just returned
    keyOp,              \* cache keys: the operation called
    callA,              \* cache keys: one way of writing the call
    callB,              \* cache keys: another way of writing the same call
    keys,               \* cache keys: None, or the keys of callA and callB
    variant,            \* which scraper class the instance is
    running,            \* the coroutine the event loop is running, or None
    method,                 \* per task: the method it called
    useCache,           \* per task: its use_cache argument
    session,            \* self.driver / self._client: None or a session id
    sess,               \* per task: its local `driver` / `client`
    live,               \* the sessions created and not yet quit / closed
    created,            \* how many sessions were ever created
    warm,               \* per task: the client whose warm-up GET it awaits
    quits,              \* how many times quit() / aclose() was called
    stale,              \* per task: a close() of the browser variant has
                        \* returned since the task's call began
    lastSend,           \* when the latest request left for the upstream
    closest,            \* the smallest gap seen between two requests
    fut,                \* per task: what its awaited step handed back
    tried,              \* per task: the detail strategies it went through
    ret,                \* per task: what its call returned or raised
    started,            \* how many calls were made
    config,             \* retry_async: its RetryConfig
    attempt,            \* retry_async: the loop variable
    calls,              \* retry_async: what each invocation of func did
    last_exception,     \* retry_async: last_exception
    rpc,                \* retry_async: where it is
    result,             \* retry_async: what it returned or raised
    waits,              \* retry_async: the delays it has slept, in order
    arg,                \* a function on its own: its argument
    out,                \* a function on its own: None, or its result
    heap,               \* objects: what each list object holds
    refs,               \* SimpleCache._cache as references: key -> object
    held,               \* the object the caller got back
    stored              \* per key, what the object held when it was stored

rateVars  == <<min_delay, last_request_time, rl_lock, wakeAt>>
rateHist  == <<reads, stamps, firstStart>>
cacheVars == <<cache, lastSet, got>>
keyVars   == <<keyOp, callA, callB, keys>>
sessVars  == <<session, sess, live, created, quits, warm, stale>>
sendVars  == <<lastSend, closest>>
taskVars  == <<method, useCache, fut, tried, ret, started>>
scrVars   == <<variant, running, sessVars, sendVars, taskVars>>
retryVars == <<config, attempt, calls, last_exception, rpc, result, waits>>
pureVars  == <<arg, out>>
aliasVars == <<heap, refs, held, stored>>
extraVars == <<retryVars, pureVars, aliasVars>>

None == <<>>
Some(x) == <<x>>
Val(o) == o[1]

\* ------------------------------------------------------------------ bounds
NumTasks    == 3    \* concurrent callers of one limiter
MaxWaits    == 4    \* wait() calls in one run
MaxTime     == 6    \* the clock stops here
MaxMinDelay == 2    \* min_delay ranges over 1..MaxMinDelay
MaxTTL      == 2    \* set() is given ttl None or 0..MaxTTL

Tasks == 1..NumTasks

\* -------------------------------------------------------- build_cache_key
\* Python values: None, a str, an int.
PyNone == <<"n">>
PyS(x) == <<"s", x>>
PyI(n) == <<"i", n>>

Digits == <<"0", "1", "2", "3", "4", "5", "6", "7", "8", "9">>

RECURSIVE NatStr(_)
NatStr(n) == IF n < 10 THEN Digits[n + 1]
             ELSE NatStr(n \div 10) \o Digits[(n % 10) + 1]

\* str(arg)
PyStr(v) == CASE v[1] = "n" -> "None"
              [] v[1] = "s" -> v[2]
              [] v[1] = "i" -> IF v[2] < 0 THEN "-" \o NatStr(-v[2]) ELSE NatStr(v[2])

RECURSIVE Join(_, _)
\* sep.join(parts)
Join(parts, sep) ==
    IF parts = <<>> THEN ""
    ELSE IF Len(parts) = 1 THEN parts[1]
    ELSE parts[1] \o sep \o Join(Tail(parts), sep)

\* The keyword names the scrapers' methods have, in sorted() order.
KwOrder == <<"language", "max_results", "permission_status", "query",
             "search_field", "thesis_id", "thesis_type", "university",
             "year_end", "year_start">>

\* f"{k}={v}" for k, v in sorted(kwargs.items()) if v is not None
KwParts(kwargs) ==
    LET kept == SelectSeq(KwOrder,
                    LAMBDA k : k \in DOMAIN kwargs /\ kwargs[k] # PyNone)
    IN  [i \in 1..Len(kept) |-> kept[i] \o "=" \o PyStr(kwargs[kept[i]])]

\* build_cache_key(*args, **kwargs)
build_cache_key(args, kwargs) ==
    Join([i \in 1..Len(args) |-> PyStr(args[i])] \o KwParts(kwargs), ":")

\* def search(self, query, search_field="tumu", year_start=None, ...,
\* max_results=20, use_cache=True): the parameters that reach the key
SearchParams == <<"query", "search_field", "year_start", "year_end",
                  "thesis_type", "university", "language",
                  "permission_status", "max_results">>
\* def get_thesis_details(self, thesis_id, use_cache=True)
DetailParams == <<"thesis_id">>

ParamsOf(op) == IF op = "search" THEN SearchParams ELSE DetailParams

\* The parameters' default values; query and thesis_id have none.
HasDefault(name) == name \notin {"query", "thesis_id"}
DefaultOf(name) == CASE name = "search_field" -> PyS("tumu")
                     [] name = "max_results" -> PyI(20)
                     [] OTHER -> PyNone

\* A call is [pos |-> the positional arguments, kw |-> the keyword ones].
\* Python binds parameter i to the i-th positional argument, else to the
\* keyword argument of its name, else to its default.
BoundArgs(op, call) ==
    [i \in 1..Len(ParamsOf(op)) |->
        IF i <= Len(call.pos) THEN call.pos[i]
        ELSE IF ParamsOf(op)[i] \in DOMAIN call.kw THEN call.kw[ParamsOf(op)[i]]
        ELSE DefaultOf(ParamsOf(op)[i])]

NoKwargs == [k \in {} |-> PyNone]

CacheKeyOfRawCall(op, call) ==
    build_cache_key(<<PyS(op)>> \o call.pos, call.kw)
\* cache_key = build_cache_key("search", query, search_field, year_start,
\*     year_end, thesis_type, university, language, permission_status,
\*     max_results)        and build_cache_key("detail", thesis_id)
CacheKeyOfCall(op, call) ==
    build_cache_key(<<PyS(op)>> \o BoundArgs(op, call), NoKwargs)

\* ------------------------------------------------------- RateLimiter.wait
\* elapsed = time.time() - self.last_request_time
Elapsed == now - Val(last_request_time)

\* if self.last_request_time is not None ... if elapsed < self.min_delay
MustSleep == last_request_time # None /\ Elapsed < min_delay

WaitTimeShort == min_delay - Elapsed - 1
\* wait_time = self.min_delay - elapsed
WaitTime == min_delay - Elapsed

LockAlwaysFree == TRUE
\* async with self._lock: the lock can be taken when nobody holds it
LockFree == rl_lock = None

\* The lock is taken and the caller goes to sleep inside it.
WaitAcquireSleep(t) ==
    /\ LockFree
    /\ MustSleep
    /\ rl_lock' = Some(t)
    /\ wakeAt' = [wakeAt EXCEPT ![t] = now + WaitTime]
    /\ UNCHANGED <<min_delay, last_request_time>>

\* The lock is taken, no sleep is needed: the time is recorded, the lock
\* released and wait() returns, all without a suspension point.
WaitAcquireReturn(t) ==
    /\ LockFree
    /\ ~MustSleep
    /\ last_request_time' = Some(now)
    /\ UNCHANGED <<min_delay, rl_lock, wakeAt>>

\* asyncio.sleep(wait_time) is over (no earlier than asked): the time is
\* recorded, the lock released and wait() returns.
WaitWakeReturn(t) ==
    /\ now >= wakeAt[t]
    /\ last_request_time' = Some(now)
    /\ rl_lock' = None
    /\ wakeAt' = [wakeAt EXCEPT ![t] = 0]
    /\ UNCHANGED min_delay

\* ------------------------------------------------------------ SimpleCache
\* The keys of the two requests the model's callers make:
\* search("ai") and get_thesis_details("7").
SearchKey == CacheKeyOfCall("search", [pos |-> <<PyS("ai")>>, kw |-> NoKwargs])
DetailKey == CacheKeyOfCall("detail", [pos |-> <<PyS("7")>>, kw |-> NoKwargs])
CacheKeys == {SearchKey, DetailKey}
Values == {"v1", "v2"}

\* SimpleCache(default_ttl): the constructor's argument, in seconds
default_ttl == 3

\* ttl or self.default_ttl: Python's `or` takes the right side when the left
\* one is None or 0
TtlOrDefault(ttl) == IF ttl = None \/ Val(ttl) = 0 THEN default_ttl ELSE Val(ttl)

\* SimpleCache.__init__, and SimpleCache.clear
EmptyCache == [k \in CacheKeys |-> None]

\* value, expiry = self._cache[key]
EntryValue(e) == Val(e)[1]
EntryExpiry(e) == Val(e)[2]

\* get: the entry is returned while datetime.now() < expiry
Fresh(e) == now < EntryExpiry(e)

\* get(key) with an entry given up one tick before its expiry
CacheGetEarly(k) ==
    IF cache[k] # None /\ now + 1 < EntryExpiry(cache[k])
    THEN Some(EntryValue(cache[k])) ELSE None

\* get(key): what is returned
CacheGetResult(k) ==
    IF cache[k] # None /\ Fresh(cache[k]) THEN Some(EntryValue(cache[k])) ELSE None

\* get(key): the store afterwards (an expired entry is deleted)
CacheAfterGet(k) ==
    IF cache[k] # None /\ ~Fresh(cache[k]) THEN [cache EXCEPT ![k] = None] ELSE cache

\* set(key, value, ttl): the store afterwards
CacheAfterSet(k, v, ttl) ==
    [cache EXCEPT ![k] = Some(<<v, now + TtlOrDefault(ttl)>>)]

\* cleanup_expired(): the store afterwards
CacheAfterCleanup ==
    [k \in CacheKeys |->
        IF cache[k] # None /\ now >= EntryExpiry(cache[k]) THEN None ELSE cache[k]]

\* ------------------------------------------------------- thesis records
\* The keys of a thesis detail record.
DetailFields == {"thesis_id", "title", "author", "advisor", "year",
                 "university", "institute", "department", "thesis_type",
                 "language", "page_count", "keywords", "abstract", "purpose"}

\* details = {"thesis_id": thesis_id, "title": None, ... "purpose": None}
AllNone(id) == [f \in DetailFields |-> IF f = "thesis_id" THEN Some(id) ELSE None]

\* HttpxYOKScraper._create_minimal_response(thesis_id, error=error); the
\* warning sign put before the error's text is written "(!)" here
MinimalResponse(id, error) ==
    [AllNone(id) EXCEPT !["title"] = Some("Detaylar yuklenemedi"),
                        !["author"] = Some("Bilinmiyor"),
                        !["abstract"] = IF error = None THEN None
                                        ELSE Some("(!) " \o Val(error))]

\* SeleniumYOKScraper._create_complete_thesis_response(thesis_id, title, author)
CompleteResponse(id, title, author) ==
    [AllNone(id) EXCEPT !["title"] = IF title = None THEN Some("Detaylar yuklenemedi") ELSE title,
                        !["author"] = IF author = None THEN Some("Bilinmiyor") ELSE author]

\* key_mapping of _parse_thesis_detail: the label of a row of the detail
\* table (written without its Turkish letters) -> the record's key
KeyMapping == [l \in {"Tez No", "Tez Adi", "Yazar", "Danisman", "Yil",
                      "Universite", "Enstitu", "Anabilim Dali", "Tez Turu",
                      "Dil", "Sayfa Sayisi", "Anahtar Kelimeler"} |->
    CASE l = "Tez No" -> "thesis_id"
      [] l = "Tez Adi" -> "title"
      [] l = "Yazar" -> "author"
      [] l = "Danisman" -> "advisor"
      [] l = "Yil" -> "year"
      [] l = "Universite" -> "university"
      [] l = "Enstitu" -> "institute"
      [] l = "Anabilim Dali" -> "department"
      [] l = "Tez Turu" -> "thesis_type"
      [] l = "Dil" -> "language"
      [] l = "Sayfa Sayisi" -> "page_count"
      [] l = "Anahtar Kelimeler" -> "keywords"]

\* The detail table of the page the upstream serves for thesis "7", and of
\* its error page (no table at all): label -> text of the row.
DetailRows == [l \in {"Tez No", "Tez Adi", "Yazar", "Yil"} |->
    CASE l = "Tez No" -> "7"
      [] l = "Tez Adi" -> "Derin Ogrenme"
      [] l = "Yazar" -> "Mehmet Demir"
      [] l = "Yil" -> "2022"]
NoRows == [l \in {} |-> ""]

\* A parse that answers a page without the detail table with the minimal
\* record.
ParseDetailOrPlaceholder(rows, id) ==
    IF DOMAIN rows = {} THEN MinimalResponse(id, None)
    ELSE [f \in DetailFields |->
            IF \E l \in DOMAIN rows : l \in DOMAIN KeyMapping /\ KeyMapping[l] = f
            THEN Some(rows[CHOOSE l \in DOMAIN rows :
                              l \in DOMAIN KeyMapping /\ KeyMapping[l] = f])
            ELSE AllNone(id)[f]]

\* HttpxYOKScraper._parse_thesis_detail(html, thesis_id): every key is there
\* from the start, a row whose label is mapped overwrites its key
ParseDetailHttpx(rows, id) ==
    [f \in DetailFields |->
        IF \E l \in DOMAIN rows : l \in DOMAIN KeyMapping /\ KeyMapping[l] = f
        THEN Some(rows[CHOOSE l \in DOMAIN rows :
                          l \in DOMAIN KeyMapping /\ KeyMapping[l] = f])
        ELSE AllNone(id)[f]]

\* One row of a parsed result list.
ResultRow == [thesis_id |-> "7", author |-> "Mehmet Demir", year |-> 2022,
              title |-> "Derin Ogrenme", thesis_type |-> "Doktora",
              university |-> "", language |-> "None"]

\* What the upstream does with a request: a page with the data, its error
\* page (status 200, no table), a status other than 200, no answer in time.
Outcomes == {"page", "marker", "non200", "timeout"}
\* What a browser sees of it: a page, or none in time.
BrowserOutcomes == {"page", "marker", "timeout"}

\* _parse_search_results(html, max_results) on the page that came
SearchResults(outcome) == IF outcome = "page" THEN <<ResultRow>> ELSE <<>>

TheId == "7"

\* ------------------------------------------------------ a scraper's calls
Returned(v) == <<"return", v>>
\* An exception of another type.
RaisedOther == <<"raise", "HTTPError">>
\* raise YOKThesisScraperError(...)
Raised == <<"raise", "YOKThesisScraperError">>

\* The methods with a cache check in front, and the key each one uses.
Cached(o) == o \in {"search", "details"}
KeyOf(o) == IF o = "search" THEN SearchKey ELSE DetailKey

\* The call is over: the task is idle again and the event loop is free.
Return(t, r) ==
    /\ ret' = [ret EXCEPT ![t] = r]
    /\ pc' = [pc EXCEPT ![t] = "idle"]
    /\ running' = None

\* A request leaves for the upstream host.
Send ==
    /\ lastSend' = Some(now)
    /\ closest' = IF lastSend = None THEN closest
                  ELSE IF closest = None \/ now - Val(lastSend) < Val(closest)
                       THEN Some(now - Val(lastSend))
                       ELSE closest

\* if use_cache and results: await self.cache.set(cache_key, results)
\* if use_cache:             await self.cache.set(cache_key, details)
CacheAfterStore(t, v) ==
    IF useCache[t] /\ (method[t] = "search" => v # <<>>)
    THEN CacheAfterSet(KeyOf(method[t]), v, None)
    ELSE cache

\* A method is called.  search and get_thesis_details look in the cache
\* first and return what they find there; close goes on to release the
\* session; everything else goes on to the rate limiter.
Call(t, o, uc) ==
    /\ pc[t] = "idle"
    /\ running = None
    /\ Cached(o) \/ ~uc
    /\ method' = [method EXCEPT ![t] = o]
    /\ useCache' = [useCache EXCEPT ![t] = uc]
    /\ tried' = [tried EXCEPT ![t] = <<>>]
    /\ fut' = [fut EXCEPT ![t] = None]
    /\ sess' = [sess EXCEPT ![t] = None]
    /\ started' = started + 1
    /\ IF uc /\ CacheGetResult(KeyOf(o)) # None
       THEN /\ Return(t, Returned(Val(CacheGetResult(KeyOf(o)))))
            /\ cache' = cache
       ELSE /\ cache' = IF uc THEN CacheAfterGet(KeyOf(o)) ELSE cache
            /\ pc' = [pc EXCEPT ![t] = IF o = "close" THEN "close" ELSE "rl_lock"]
            /\ running' = Some(t)
            /\ ret' = [ret EXCEPT ![t] = None]
    /\ UNCHANGED <<now, rateVars, rateHist, lastSet, got, keyVars, extraVars, variant,
                   session, live, created, warm, quits, sendVars>>
    /\ stale' = [stale EXCEPT ![t] = FALSE]

\* await self.rate_limiter.wait(): the lock is held by a sleeper, so the
\* coroutine is suspended and the event loop goes on to others
RlBlock(t) ==
    /\ pc[t] = "rl_lock"
    /\ running = Some(t)
    /\ ~LockFree
    /\ running' = None
    /\ UNCHANGED <<now, rateVars, pc, rateHist, cacheVars, keyVars, extraVars, variant,
                   sessVars, sendVars, taskVars>>

\* await self.rate_limiter.wait(): the lock is free
RlEnter(t) ==
    /\ pc[t] = "rl_lock"
    /\ running \in {None, Some(t)}
    /\ \/ /\ WaitAcquireSleep(t)
          /\ pc' = [pc EXCEPT ![t] = "rl_sleep"]
          /\ running' = None
       \/ /\ WaitAcquireReturn(t)
          /\ pc' = [pc EXCEPT ![t] = "go"]
          /\ running' = Some(t)
    /\ UNCHANGED <<now, rateHist, cacheVars, keyVars, extraVars, variant,
                   sessVars, sendVars, taskVars>>

\* await self.rate_limiter.wait(): the sleep is over
RlWake(t) ==
    /\ pc[t] = "rl_sleep"
    /\ running = None
    /\ WaitWakeReturn(t)
    /\ pc' = [pc EXCEPT ![t] = "go"]
    /\ running' = Some(t)
    /\ UNCHANGED <<now, rateHist, cacheVars, keyVars, extraVars, variant,
                   sessVars, sendVars, taskVars>>

\* ------------------------------------------------------- HttpxYOKScraper
\* if self._client is None or self._client.is_closed
NoClient == session = None \/ Val(session) \notin live

\* client = await self._get_client(): a client is there and is returned,
\* or one is made, stored, and the search page asked for (the warm-up GET)
HttpxGetClient(t) ==
    /\ variant = "httpx"
    /\ pc[t] = "go"
    /\ running = Some(t)
    /\ IF NoClient
       THEN /\ created' = created + 1
            /\ session' = Some(created + 1)
            /\ live' = live \cup {created + 1}
            /\ warm' = [warm EXCEPT ![t] = Some(created + 1)]
            /\ Send
            /\ pc' = [pc EXCEPT ![t] = "warmup"]
            /\ running' = None
            /\ UNCHANGED sess
       ELSE /\ sess' = [sess EXCEPT ![t] = session]
            /\ pc' = [pc EXCEPT ![t] = "request"]
            /\ UNCHANGED <<created, warm, session, live, sendVars, running>>
    /\ UNCHANGED <<now, rateVars, rateHist, cacheVars, keyVars, extraVars, variant,
                   quits, stale, taskVars>>

\* the warm-up GET is over (an exception it raised is only logged):
\* return self._client
HttpxWarmupDone(t) ==
    /\ variant = "httpx"
    /\ pc[t] = "warmup"
    /\ running = None
    /\ sess' = [sess EXCEPT ![t] = session]
    /\ warm' = [warm EXCEPT ![t] = None]
    /\ pc' = [pc EXCEPT ![t] = "request"]
    /\ running' = Some(t)
    /\ UNCHANGED <<now, rateVars, rateHist, cacheVars, keyVars, extraVars, variant,
                   session, live, created, quits, stale, sendVars, taskVars>>

\* response = await client.post(self.SEARCH_URL, data=form_data)
\* response = await client.get(detail_url)
\* A client that is None or closed raises at once, and the except clauses
\* turn that into YOKThesisScraperError (search) or the minimal record.
HttpxRequest(t) ==
    /\ variant = "httpx"
    /\ pc[t] = "request"
    /\ running = Some(t)
    /\ IF sess[t] = None \/ Val(sess[t]) \notin live
       THEN /\ IF method[t] = "search"
               THEN /\ Return(t, Raised)
                    /\ tried' = [tried EXCEPT ![t] = Append(@, <<"post", "error">>)]
               ELSE /\ Return(t, Returned(MinimalResponse(TheId, Some("client"))))
                    /\ tried' = [tried EXCEPT ![t] = Append(@, <<"direct", "client">>)]
            /\ sess' = [sess EXCEPT ![t] = None]
            /\ UNCHANGED sendVars
       ELSE /\ Send
            /\ pc' = [pc EXCEPT ![t] = "response"]
            /\ running' = None
            /\ UNCHANGED <<ret, tried, sess>>
    /\ UNCHANGED <<now, rateVars, rateHist, cacheVars, keyVars, extraVars, variant,
                   session, live, created, warm, quits, stale, method, useCache, fut,
                   started>>

\* the answer is there.  search: raise_for_status, parse, store, return;
\* get_thesis_details: parse a 200 page, else the minimal record; store it;
\* an exception gives the minimal record with the error, not stored.
HttpxResponse(t, outcome) ==
    /\ variant = "httpx"
    /\ pc[t] = "response"
    /\ running = None
    /\ IF method[t] = "search"
       THEN /\ tried' = [tried EXCEPT ![t] = Append(@, <<"post",
                      IF outcome \in {"page", "marker"} THEN "200" ELSE "error">>)]
            /\ IF outcome \in {"page", "marker"}
               THEN /\ cache' = CacheAfterStore(t, SearchResults(outcome))
                    /\ Return(t, Returned(SearchResults(outcome)))
               ELSE /\ Return(t, Raised)
                    /\ UNCHANGED cache
       ELSE /\ tried' = [tried EXCEPT ![t] = Append(@, <<"direct", outcome>>)]
            /\ CASE outcome = "page" ->
                      /\ cache' = CacheAfterStore(t, ParseDetailHttpx(DetailRows, TheId))
                      /\ Return(t, Returned(ParseDetailHttpx(DetailRows, TheId)))
                 [] outcome = "marker" ->
                      /\ cache' = CacheAfterStore(t, ParseDetailHttpx(NoRows, TheId))
                      /\ Return(t, Returned(ParseDetailHttpx(NoRows, TheId)))
                 [] outcome = "non200" ->
                      /\ cache' = CacheAfterStore(t, MinimalResponse(TheId, None))
                      /\ Return(t, Returned(MinimalResponse(TheId, None)))
                 [] outcome = "timeout" ->
                      /\ Return(t, Returned(MinimalResponse(TheId, Some("timeout"))))
                      /\ UNCHANGED cache
    /\ sess' = [sess EXCEPT ![t] = None]
    /\ UNCHANGED <<now, rateVars, rateHist, lastSet, got, keyVars, extraVars, variant,
                   session, live, created, warm, quits, stale, sendVars, method, useCache,
                   fut, started>>

\* close(): if self._client and not self._client.is_closed:
\*              await self._client.aclose()
\* and with no open client straight on to the cache
HttpxCloseBegin(t) ==
    /\ variant = "httpx"
    /\ pc[t] = "close"
    /\ running = Some(t)
    /\ IF ~NoClient
       THEN /\ live' = live \ {Val(session)}
            /\ quits' = quits + 1
            /\ pc' = [pc EXCEPT ![t] = "closing"]
            /\ running' = None
            /\ UNCHANGED <<cache, ret>>
       ELSE /\ cache' = EmptyCache
            /\ Return(t, Returned("None"))
            /\ UNCHANGED <<live, quits>>
    /\ UNCHANGED <<now, rateVars, rateHist, lastSet, got, keyVars, extraVars, variant,
                   session, sess, created, warm, stale, sendVars, method, useCache, fut,
                   tried, started>>

\* close(): self._client = None; await self.cache.clear()
HttpxCloseEnd(t) ==
    /\ variant = "httpx"
    /\ pc[t] = "closing"
    /\ running = None
    /\ session' = None
    /\ cache' = EmptyCache
    /\ Return(t, Returned("None"))
    /\ UNCHANGED <<now, rateVars, rateHist, lastSet, got, keyVars, extraVars, variant,
                   sess, live, created, warm, quits, stale, sendVars, method, useCache, fut,
                   tried, started>>

\* ---------------------------------------------------- SeleniumYOKScraper
\* What the modal dialog of thesis "7" shows, field by field.
ModalFields == [f \in {"title", "author", "year"} |->
    CASE f = "title" -> "Derin Ogrenme"
      [] f = "author" -> "Mehmet Demir"
      [] f = "year" -> "2022"]

\* _parse_modal_content_enhanced(modal_html, thesis_id): every key is there
\* from the start, what the modal shows is filled in
ParseModal(modal, id) ==
    [f \in DetailFields |->
        IF f \in DOMAIN modal THEN Some(modal[f]) ELSE AllNone(id)[f]]

\* What _search_sync / _get_thesis_details_sync gives back for what the
\* site did.  The search re-raises what goes wrong; the detail retrieval
\* returns a record whatever happens once it has a driver.
SeleniumSyncResult(o, outcome) ==
    IF o = "search"
    THEN IF outcome \in {"page", "marker"}
         THEN Returned(SearchResults(outcome))
         ELSE Raised
    ELSE CASE outcome = "page" -> Returned(ParseModal(ModalFields, TheId))
           [] outcome = "marker" -> Returned(CompleteResponse(TheId, None, None))
           [] OTHER -> Returned(CompleteResponse(TheId, Some("Tez #" \o TheId),
                                                 Some("Bilgi alinamadi")))

\* results = await loop.run_in_executor(None, self._search_sync, ...)
\* details = await loop.run_in_executor(None, self._get_thesis_details_sync, id)
\* The synchronous function is handed to a thread of the default pool and
\* the coroutine is suspended until the thread is through.
SeleniumSubmit(t) ==
    /\ variant = "selenium"
    /\ pc[t] = "go"
    /\ running = Some(t)
    /\ pc' = [pc EXCEPT ![t] = "queued"]
    /\ running' = None
    /\ UNCHANGED <<now, rateVars, rateHist, cacheVars, keyVars, extraVars, variant,
                   sessVars, sendVars, taskVars>>

\* _get_driver() in the thread: if self.driver is None (then a browser is
\* to be started), else return self.driver
DriverCheck(t) ==
    /\ variant = "selenium"
    /\ pc[t] = "queued"
    /\ IF session = None
       THEN /\ pc' = [pc EXCEPT ![t] = "launching"]
            /\ UNCHANGED sess
       ELSE /\ pc' = [pc EXCEPT ![t] = "ready"]
            /\ sess' = [sess EXCEPT ![t] = session]
    /\ UNCHANGED <<now, rateVars, rateHist, cacheVars, keyVars, extraVars, variant,
                   running, session, live, created, warm, quits, stale, sendVars, taskVars>>

\* _get_driver() in the thread: self.driver = webdriver.Chrome(...) ...
\* return self.driver.  When the browser does not start the exception
\* leaves the synchronous function, whose try begins after this call.
DriverLaunched(t, ok) ==
    /\ variant = "selenium"
    /\ pc[t] = "launching"
    /\ IF ok
       THEN /\ created' = created + 1
            /\ live' = live \cup {created + 1}
            /\ session' = Some(created + 1)
            /\ sess' = [sess EXCEPT ![t] = Some(created + 1)]
            /\ UNCHANGED warm
            /\ pc' = [pc EXCEPT ![t] = "ready"]
            /\ UNCHANGED fut
       ELSE /\ fut' = [fut EXCEPT ![t] = Raised]
            /\ pc' = [pc EXCEPT ![t] = "done"]
            /\ UNCHANGED <<created, warm, live, session, sess>>
    /\ UNCHANGED <<now, rateVars, rateHist, cacheVars, keyVars, extraVars, variant,
                   running, quits, stale, sendVars, method, useCache, tried, ret,
                   started>>

\* driver.get(self.SEARCH_URL) in the thread; a driver that was quit
\* raises, which is one of the exceptions of the synchronous function
NavBegin(t) ==
    /\ variant = "selenium"
    /\ pc[t] = "ready"
    /\ IF Val(sess[t]) \in live
       THEN /\ Send
            /\ pc' = [pc EXCEPT ![t] = "nav"]
            /\ UNCHANGED <<fut, tried>>
       ELSE /\ fut' = [fut EXCEPT ![t] = SeleniumSyncResult(method[t], "driver")]
            /\ tried' = [tried EXCEPT ![t] = Append(@, <<"search_modal", "driver">>)]
            /\ pc' = [pc EXCEPT ![t] = "done"]
            /\ UNCHANGED sendVars
    /\ UNCHANGED <<now, rateVars, rateHist, cacheVars, keyVars, extraVars, variant,
                   running, sessVars, method, useCache, ret, started>>

\* the rest of the synchronous function in the thread: the form is filled
\* in and submitted on the page that came, the result page or the modal is
\* parsed
NavEnd(t, outcome) ==
    /\ variant = "selenium"
    /\ pc[t] = "nav"
    /\ IF Val(sess[t]) \in live
       THEN /\ fut' = [fut EXCEPT ![t] = SeleniumSyncResult(method[t], outcome)]
            /\ tried' = [tried EXCEPT ![t] = Append(@, <<"search_modal", outcome>>)]
            /\ IF outcome \in {"page", "marker"} THEN Send ELSE UNCHANGED sendVars
       ELSE /\ fut' = [fut EXCEPT ![t] = SeleniumSyncResult(method[t], "driver")]
            /\ tried' = [tried EXCEPT ![t] = Append(@, <<"search_modal", "driver">>)]
            /\ UNCHANGED sendVars
    /\ pc' = [pc EXCEPT ![t] = "done"]
    /\ UNCHANGED <<now, rateVars, rateHist, cacheVars, keyVars, extraVars, variant,
                   running, sessVars, method, useCache, ret, started>>

\* the coroutine goes on with what the thread left: the result is stored
\* and returned, an exception becomes YOKThesisScraperError
SeleniumResume(t) ==
    /\ variant = "selenium"
    /\ pc[t] = "done"
    /\ running = None
    /\ IF fut[t] = Raised
       THEN /\ Return(t, Raised)
            /\ UNCHANGED cache
       ELSE /\ cache' = CacheAfterStore(t, fut[t][2])
            /\ Return(t, fut[t])
    /\ fut' = [fut EXCEPT ![t] = None]
    /\ sess' = [sess EXCEPT ![t] = None]
    /\ UNCHANGED <<now, rateVars, rateHist, lastSet, got, keyVars, extraVars, variant,
                   session, live, created, warm, quits, stale, sendVars, method, useCache,
                   tried, started>>

\* close(): if self.driver: self.driver.quit()
\* and with no driver straight on to the cache
\* close() of task t returns: the calls in progress at that moment are
\* from now on calls that began before a close() that has returned.
StaleAfterClose(t) ==
    [u \in Tasks |-> IF u # t /\ pc[u] # "idle" THEN TRUE ELSE stale[u]]

SeleniumCloseQuit(t) ==
    /\ variant = "selenium"
    /\ pc[t] = "close"
    /\ running = Some(t)
    /\ IF session # None
       THEN /\ live' = live \ {Val(session)}
            /\ quits' = quits + 1
            /\ pc' = [pc EXCEPT ![t] = "closing"]
            /\ UNCHANGED <<cache, ret, running, stale>>
       ELSE /\ cache' = EmptyCache
            /\ Return(t, Returned("None"))
            /\ UNCHANGED <<live, quits>>
            /\ stale' = StaleAfterClose(t)
    /\ UNCHANGED <<now, rateVars, rateHist, lastSet, got, keyVars, extraVars, variant,
                   session, sess, created, warm, sendVars, method, useCache, fut,
                   tried, started>>

\* close(): self.driver = None; await self.cache.clear()
SeleniumCloseEnd(t) ==
    /\ variant = "selenium"
    /\ pc[t] = "closing"
    /\ running = Some(t)
    /\ session' = None
    /\ cache' = EmptyCache
    /\ Return(t, Returned("None"))
    /\ stale' = StaleAfterClose(t)
    /\ UNCHANGED <<now, rateVars, rateHist, lastSet, got, keyVars, extraVars, variant,
                   sess, live, created, warm, quits, sendVars, method, useCache,
                   fut, tried, started>>

\* ------------------------------------------------------ YOKThesisScraper
\* RetryConfig(max_attempts=3): initial_delay 1.0, exponential_base 2.0,
\* max_delay 10.0
max_attempts == 3
initial_delay == 1
exponential_base == 2
max_delay == 10

RECURSIVE Pow(_, _)
Pow(b, n) == IF n = 0 THEN 1 ELSE b * Pow(b, n - 1)

\* delay = min(initial_delay * exponential_base ** attempt, max_delay)
RetryDelay(k) ==
    IF initial_delay * Pow(exponential_base, k) < max_delay
    THEN initial_delay * Pow(exponential_base, k)
    ELSE max_delay

\* YOKThesisScraper._parse_thesis_detail(html): only the rows that are
\* there give keys; a page without the table gives the empty dict
ParseDetailBase(rows) ==
    [f \in {KeyMapping[l] : l \in DOMAIN rows \cap DOMAIN KeyMapping} |->
        Some(rows[CHOOSE l \in DOMAIN rows \cap DOMAIN KeyMapping :
                      KeyMapping[l] = f])]

\* _request() inside retry_async: a client is made for this one attempt
\* and the request is sent
BaseRequest(t) ==
    /\ variant = "base"
    /\ pc[t] = "go"
    /\ running = Some(t)
    /\ Send
    /\ pc' = [pc EXCEPT ![t] = "response"]
    /\ running' = None
    /\ UNCHANGED <<now, rateVars, rateHist, cacheVars, keyVars, extraVars, variant,
                   sessVars, taskVars>>

\* The page a 200 answer carries, parsed; search stores and returns its
\* list; get_thesis_details raises on the empty dict.
BaseParsed(t, outcome) ==
    IF method[t] = "search" THEN SearchResults(outcome)
    ELSE ParseDetailBase(IF outcome = "page" THEN DetailRows ELSE NoRows)

\* the attempt's answer: a 200 page is parsed; anything else is an
\* exception, after which retry_async sleeps and tries again, or after the
\* last attempt _make_request raises YOKThesisScraperError
BaseResponse(t, outcome) ==
    /\ variant = "base"
    /\ pc[t] = "response"
    /\ running = None
    /\ tried' = [tried EXCEPT ![t] = Append(@, <<"direct",
                    IF outcome \in {"page", "marker"} THEN "200" ELSE "error">>)]
    /\ IF outcome \in {"page", "marker"}
       THEN /\ IF method[t] = "details" /\ DOMAIN BaseParsed(t, outcome) = {}
               THEN Return(t, Raised) /\ UNCHANGED cache
               ELSE /\ cache' = CacheAfterStore(t, BaseParsed(t, outcome))
                    /\ Return(t, Returned(BaseParsed(t, outcome)))
            /\ UNCHANGED wakeAt
       ELSE /\ UNCHANGED cache
            /\ IF Len(tried[t]) < max_attempts - 1
               THEN /\ wakeAt' = [wakeAt EXCEPT ![t] = now + RetryDelay(Len(tried[t]))]
                    /\ pc' = [pc EXCEPT ![t] = "retry_sleep"]
                    /\ UNCHANGED <<ret, running>>
               ELSE /\ Return(t, Raised)
                    /\ UNCHANGED wakeAt
    /\ UNCHANGED <<now, min_delay, last_request_time, rl_lock, rateHist,
                   lastSet, got, keyVars, extraVars, variant, sessVars, sendVars,
                   method, useCache, fut, started>>

\* retry_async: await asyncio.sleep(delay) is over, the next attempt
BaseRetry(t) ==
    /\ variant = "base"
    /\ pc[t] = "retry_sleep"
    /\ running = None
    /\ now >= wakeAt[t]
    /\ wakeAt' = [wakeAt EXCEPT ![t] = 0]
    /\ pc' = [pc EXCEPT ![t] = "go"]
    /\ running' = Some(t)
    /\ UNCHANGED <<now, min_delay, last_request_time, rl_lock, rateHist,
                   cacheVars, keyVars, extraVars, variant, sessVars, sendVars, taskVars>>

\* close(): await self.cache.clear()
BaseClose(t) ==
    /\ variant = "base"
    /\ pc[t] = "close"
    /\ running = Some(t)
    /\ cache' = EmptyCache
    /\ Return(t, Returned("None"))
    /\ UNCHANGED <<now, rateVars, rateHist, lastSet, got, keyVars, extraVars, variant,
                   sessVars, sendVars, method, useCache, fut, tried, started>>

\* ----------------------------------------------------- the parts at rest
RateIdle ==
    /\ last_request_time = None
    /\ rl_lock = None
    /\ wakeAt = [t \in Tasks |-> 0]
    /\ pc = [t \in Tasks |-> "idle"]
    /\ reads = <<>>
    /\ stamps = <<>>
    /\ firstStart = None

CacheIdle ==
    /\ cache = EmptyCache
    /\ lastSet = [k \in CacheKeys |-> None]
    /\ got = None

ScraperIdle ==
    /\ variant = "httpx"
    /\ running = None
    /\ method = [t \in Tasks |-> "none"]
    /\ useCache = [t \in Tasks |-> FALSE]
    /\ session = None
    /\ sess = [t \in Tasks |-> None]
    /\ live = {}
    /\ created = 0
    /\ warm = [t \in Tasks |-> None]
    /\ quits = 0
    /\ stale = [t \in Tasks |-> FALSE]
    /\ lastSend = None
    /\ closest = None
    /\ fut = [t \in Tasks |-> None]
    /\ tried = [t \in Tasks |-> <<>>]
    /\ ret = [t \in Tasks |-> None]
    /\ started = 0

KeyIdle ==
    /\ keyOp = "search"
    /\ callA = [pos |-> <<>>, kw |-> NoKwargs]
    /\ callB = [pos |-> <<>>, kw |-> NoKwargs]
    /\ keys = None

RetryIdle ==
    /\ config = [max_attempts |-> max_attempts, initial_delay |-> initial_delay,
                 max_delay |-> max_delay, exponential_base |-> exponential_base]
    /\ attempt = 0
    /\ calls = <<>>
    /\ last_exception = None
    /\ rpc = "idle"
    /\ result = None
    /\ waits = <<>>

PureIdle ==
    /\ arg = None
    /\ out = None

AliasIdle ==
    /\ heap = <<>>
    /\ refs = [k \in CacheKeys |-> None]
    /\ held = None
    /\ stored = [k \in CacheKeys |-> None]

ExtraIdle == RetryIdle /\ PureIdle /\ AliasIdle

\* ---------------------------------------------- the limiter on its own
RateInit ==
    /\ now = 0
    /\ min_delay \in 1..MaxMinDelay
    /\ RateIdle
    /\ CacheIdle
    /\ KeyIdle
    /\ ScraperIdle
    /\ ExtraIdle

\* a caller calls wait()
WaitCall(t) ==
    /\ pc[t] = "idle"
    /\ Len(reads) + Cardinality({u \in Tasks : pc[u] = "rl_lock"}) < MaxWaits
    /\ pc' = [pc EXCEPT ![t] = "rl_lock"]
    /\ firstStart' = IF firstStart = None THEN Some(now) ELSE firstStart
    /\ UNCHANGED <<now, rateVars, reads, stamps, cacheVars, keyVars, extraVars, scrVars>>

WaitEnter(t) ==
    /\ pc[t] = "rl_lock"
    /\ reads' = Append(reads, last_request_time)
    /\ \/ /\ WaitAcquireSleep(t)
          /\ pc' = [pc EXCEPT ![t] = "rl_sleep"]
          /\ UNCHANGED stamps
       \/ /\ WaitAcquireReturn(t)
          /\ pc' = [pc EXCEPT ![t] = "idle"]
          /\ stamps' = Append(stamps, <<t, now>>)
    /\ UNCHANGED <<now, firstStart, cacheVars, keyVars, extraVars, scrVars>>

WaitWake(t) ==
    /\ pc[t] = "rl_sleep"
    /\ WaitWakeReturn(t)
    /\ pc' = [pc EXCEPT ![t] = "idle"]
    /\ stamps' = Append(stamps, <<t, now>>)
    /\ UNCHANGED <<now, reads, firstStart, cacheVars, keyVars, extraVars, scrVars>>

Tick ==
    /\ now < MaxTime
    /\ now' = now + 1
    /\ UNCHANGED <<rateVars, pc, rateHist, cacheVars, keyVars, extraVars, scrVars>>

RateNext ==
    \/ \E t \in Tasks : WaitCall(t)
    \/ \E t \in Tasks : WaitEnter(t)
    \/ \E t \in Tasks : WaitWake(t)
    \/ Tick

vars == <<now, rateVars, pc, rateHist, cacheVars, keyVars, extraVars, scrVars>>

SpecRate == RateInit /\ [][RateNext]_vars

\* C1: the times recorded by consecutive wait() calls are at least min_delay
\* apart, so N completed calls end no earlier than (N-1) * min_delay after
\* the first call started.
C1_SuccessiveWaitsSpaced ==
    /\ \A i \in 1..(Len(stamps) - 1) :
          stamps[i + 1][2] - stamps[i][2] >= min_delay
    /\ stamps # <<>> =>
          /\ last_request_time = Some(stamps[Len(stamps)][2])
          /\ now - Val(firstStart) >= (Len(stamps) - 1) * min_delay

\* three calls by one caller, back to back, have all returned
C1_Witness ==
    /\ Len(stamps) >= 3
    /\ \A i \in 1..Len(stamps) : stamps[i][1] = 1

\* C2: no two wait() calls read the same last_request_time, and the return
\* times of any two calls are at least min_delay apart, whoever is released
\* first.
C2_ConcurrentWaitsSpaced ==
    /\ \A i, j \in 1..Len(reads) : i # j => reads[i] # reads[j]
    /\ \A i, j \in 1..Len(stamps) :
          i # j => \/ stamps[i][2] - stamps[j][2] >= min_delay
                   \/ stamps[j][2] - stamps[i][2] >= min_delay

\* one caller waits for the lock while another sleeps inside it, after two
\* different callers have returned
C2_Witness ==
    /\ Len(stamps) >= 2
    /\ \E t, u \in Tasks : pc[t] = "rl_lock" /\ pc[u] = "rl_sleep"
    /\ \E i, j \in 1..Len(stamps) : stamps[i][1] # stamps[j][1]

\* ------------------------------------------------ the cache on its own
CacheInit ==
    /\ now = 0
    /\ min_delay = 1
    /\ RateIdle
    /\ CacheIdle
    /\ KeyIdle
    /\ ScraperIdle
    /\ ExtraIdle

TtlArgs == {None} \cup {Some(n) : n \in 0..MaxTTL}

CacheSet(k, v, ttl) ==
    /\ cache' = CacheAfterSet(k, v, ttl)
    /\ lastSet' = [lastSet EXCEPT ![k] = Some(<<v, now, ttl>>)]
    /\ got' = None
    /\ UNCHANGED <<now, rateVars, pc, rateHist, keyVars, extraVars, scrVars>>

CacheGet(k) ==
    /\ got' = Some(<<k, CacheGetResult(k)>>)
    /\ cache' = CacheAfterGet(k)
    /\ UNCHANGED <<now, rateVars, pc, rateHist, lastSet, keyVars, extraVars, scrVars>>

CacheCleanup ==
    /\ cache' = CacheAfterCleanup
    /\ got' = None
    /\ UNCHANGED <<now, rateVars, pc, rateHist, lastSet, keyVars, extraVars, scrVars>>

CacheClear ==
    /\ cache' = EmptyCache
    /\ lastSet' = [k \in CacheKeys |-> None]
    /\ got' = None
    /\ UNCHANGED <<now, rateVars, pc, rateHist, keyVars, extraVars, scrVars>>

CacheTick ==
    /\ now < MaxTime
    /\ now' = now + 1
    /\ got' = None
    /\ UNCHANGED <<rateVars, pc, rateHist, cache, lastSet, keyVars, extraVars, scrVars>>

CacheNext ==
    \/ \E k \in CacheKeys, v \in Values, ttl \in TtlArgs : CacheSet(k, v, ttl)
    \/ \E k \in CacheKeys : CacheGet(k)
    \/ CacheCleanup
    \/ CacheClear
    \/ CacheTick

SpecCache == CacheInit /\ [][CacheNext]_vars

\* The ttl a set() was given, the default standing in for None only.
GivenTtl(ttl) == IF ttl = None THEN default_ttl ELSE Val(ttl)

\* The latest set of key k is still within its ttl.
WithinTtl(k) ==
    /\ lastSet[k] # None
    /\ now < Val(lastSet[k])[2] + GivenTtl(Val(lastSet[k])[3])

\* C4: get(k) returns the value of the latest set(k, v, ttl) while the time
\* is before that set's time plus ttl and returns None from then on, and a
\* get at or after the expiry leaves no entry for k in the store.
C4_GetFollowsLatestSet ==
    got # None =>
        LET k == Val(got)[1]
            r == Val(got)[2]
        IN  IF WithinTtl(k)
            THEN r = Some(Val(lastSet[k])[1])
            ELSE r = None /\ cache[k] = None

\* -------------------------------------------- the cache keys on their own
\* The argument values tried for each parameter.
ArgValues(name) ==
    CASE name = "query" -> {PyS("ai")}
      [] name = "search_field" -> {PyS("tumu"), PyS("yazar")}
      [] name = "year_start" -> {PyNone, PyI(2020)}
      [] name = "year_end" -> {PyNone, PyI(2021)}
      [] name = "thesis_type" -> {PyNone, PyS("doktora")}
      [] name = "university" -> {PyNone}
      [] name = "language" -> {PyNone, PyS("tr")}
      [] name = "permission_status" -> {PyNone}
      [] name = "max_results" -> {PyI(20), PyI(5)}
      [] name = "thesis_id" -> {PyS("123456"), PyS("7")}

Range(f) == {f[i] : i \in DOMAIN f}

\* The logical requests: a value for every parameter.
Requests(op) ==
    IF op = "search"
    THEN [query : ArgValues("query"),
          search_field : ArgValues("search_field"),
          year_start : ArgValues("year_start"),
          year_end : ArgValues("year_end"),
          thesis_type : ArgValues("thesis_type"),
          university : ArgValues("university"),
          language : ArgValues("language"),
          permission_status : ArgValues("permission_status"),
          max_results : ArgValues("max_results")]
    ELSE [thesis_id : ArgValues("thesis_id")]

\* The ways of writing request q as a call: the first n parameters are
\* passed by position, of the others some by keyword, and a parameter is
\* left out only when its value is its default.
Shapes(op, q) ==
    LET P == ParamsOf(op)
    IN  {sh \in (0..Len(P)) \X (SUBSET Range(P)) :
            /\ \A i \in 1..sh[1] : P[i] \notin sh[2]
            /\ \A i \in (sh[1] + 1)..Len(P) :
                  P[i] \notin sh[2] =>
                      HasDefault(P[i]) /\ q[P[i]] = DefaultOf(P[i])}

CallOf(op, q, sh) ==
    [pos |-> [i \in 1..sh[1] |-> q[ParamsOf(op)[i]]],
     kw  |-> [k \in sh[2] |-> q[k]]]

\* Everything passed by position, nothing left out.
Positional(op) == <<Len(ParamsOf(op)), {}>>

KeyInit ==
    /\ now = 0
    /\ min_delay = 1
    /\ RateIdle
    /\ CacheIdle
    /\ ScraperIdle
    /\ ExtraIdle
    /\ keyOp \in {"search", "detail"}
    /\ \E q \in Requests(keyOp) :
          /\ callA = CallOf(keyOp, q, Positional(keyOp))
          /\ \E sh \in Shapes(keyOp, q) : callB = CallOf(keyOp, q, sh)
    /\ keys = None

\* search() or get_thesis_details() builds its cache key, once for each call
BuildKeys ==
    /\ keys = None
    /\ keys' = Some(<<CacheKeyOfCall(keyOp, callA), CacheKeyOfCall(keyOp, callB)>>)
    /\ UNCHANGED <<now, rateVars, pc, rateHist, cacheVars, keyOp, callA, callB,
                   scrVars, extraVars>>

KeyNext == BuildKeys

SpecKey == KeyInit /\ [][KeyNext]_vars

\* The non-null parameters of a call, by name.
NonNull(op, call) ==
    LET b == BoundArgs(op, call)
        P == ParamsOf(op)
    IN  {<<P[i], b[i]>> : i \in {j \in 1..Len(P) : b[j] # PyNone}}

\* C5: two calls of one operation with the same non-null parameters get the
\* same cache key, whether a parameter is passed by position or by keyword,
\* and whether an unused filter is left out or passed as None.
C5_SameQuerySameKey ==
    (keys # None /\ NonNull(keyOp, callA) = NonNull(keyOp, callB))
        => Val(keys)[1] = Val(keys)[2]

\* a search written with keywords and with filters left out got its key
C5_Witness ==
    /\ keys # None
    /\ keyOp = "search"
    /\ Len(callB.pos) = 1
    /\ DOMAIN callB.kw = {"year_start", "max_results"}
    /\ callB.kw["year_start"] = PyI(2020)
    /\ NonNull(keyOp, callA) = NonNull(keyOp, callB)
    /\ Val(keys)[1] = "search:ai:tumu:2020:None:None:None:None:None:20"

\* ------------------------------------------------- a scraper instance
MaxCalls == 3   \* method calls in one run
NumCallers == 2 \* tasks that call the scraper's methods
MaxClock == 3   \* seconds on the clock of a scraper's run

Callers == 1..NumCallers

Variants == {"selenium", "httpx", "base"}

MethodsOf(v) == {"search", "details", "close"}

Init ==
    /\ now = 0
    /\ min_delay \in 1..MaxMinDelay
    /\ RateIdle
    /\ CacheIdle
    /\ KeyIdle
    /\ ExtraIdle
    /\ variant \in Variants
    /\ running = None
    /\ method = [t \in Tasks |-> "none"]
    /\ useCache = [t \in Tasks |-> FALSE]
    /\ session = None
    /\ sess = [t \in Tasks |-> None]
    /\ live = {}
    /\ created = 0
    /\ warm = [t \in Tasks |-> None]
    /\ quits = 0
    /\ stale = [t \in Tasks |-> FALSE]
    /\ lastSend = None
    /\ closest = None
    /\ fut = [t \in Tasks |-> None]
    /\ tried = [t \in Tasks |-> <<>>]
    /\ ret = [t \in Tasks |-> None]
    /\ started = 0

\* The clock moves on while no coroutine is running.
Clock ==
    /\ now < MaxClock
    /\ running = None
    /\ now' = now + 1
    /\ UNCHANGED <<rateVars, pc, rateHist, cacheVars, keyVars, extraVars, scrVars>>

Next ==
    \/ \E t \in Callers, o \in MethodsOf(variant), uc \in BOOLEAN :
          started < MaxCalls /\ Call(t, o, uc)
    \/ \E t \in Callers : RlBlock(t)
    \/ \E t \in Callers : RlEnter(t)
    \/ \E t \in Callers : RlWake(t)
    \/ \E t \in Callers : HttpxGetClient(t)
    \/ \E t \in Callers : HttpxWarmupDone(t)
    \/ \E t \in Callers : HttpxRequest(t)
    \/ \E t \in Callers, outcome \in Outcomes : HttpxResponse(t, outcome)
    \/ \E t \in Callers : HttpxCloseBegin(t)
    \/ \E t \in Callers : HttpxCloseEnd(t)
    \/ \E t \in Callers : SeleniumSubmit(t)
    \/ \E t \in Callers : DriverCheck(t)
    \/ \E t \in Callers, ok \in BOOLEAN : DriverLaunched(t, ok)
    \/ \E t \in Callers : NavBegin(t)
    \/ \E t \in Callers, outcome \in BrowserOutcomes : NavEnd(t, outcome)
    \/ \E t \in Callers : SeleniumResume(t)
    \/ \E t \in Callers : SeleniumCloseQuit(t)
    \/ \E t \in Callers : SeleniumCloseEnd(t)
    \/ \E t \in Callers : BaseRequest(t)
    \/ \E t \in Callers, outcome \in Outcomes : BaseResponse(t, outcome)
    \/ \E t \in Callers : BaseRetry(t)
    \/ \E t \in Callers : BaseClose(t)
    \/ Clock

Spec == Init /\ [][Next]_vars

\* The call of task t is over and went upstream (no cache hit).
Finished(t, o) ==
    /\ method[t] = o
    /\ pc[t] = "idle"
    /\ ret[t] # None
    /\ tried[t] # <<>>

\* The record is the minimal placeholder.
IsPlaceholder(r) == r["title"] = Some("Detaylar yuklenemedi")

\* C3: any two consecutive requests that one scraper instance sends to the
\* upstream host, retries and the warm-up GET included, are at least the
\* rate-limit delay apart.
C3_RequestsSpaced == closest = None \/ Val(closest) >= min_delay

\* C6: in every reachable state at most one browser or HTTP client has been
\* created and not yet closed.
C6_AtMostOneLiveSession == Cardinality(live) <= 1

\* C7: in the Selenium variant no two calls are at work on the shared
\* driver at the same time.
C7_OneBrowserOperation ==
    \A t, u \in Callers :
        (t # u /\ pc[t] = "nav" /\ pc[u] = "nav") => sess[t] # sess[u]

\* C8: when close() returns no browser or client is live, and a close()
\* that finds the session already released quits nothing and raises
\* nothing.
C8_CloseReleasesAndIsIdempotent ==
    [][\A t \in Callers :
          (method[t] = "close" /\ pc[t] \in {"close", "closing"} /\ pc'[t] = "idle")
          => /\ live' = {}
             /\ (session = None /\ pc[t] = "close"
                    => quits' = quits /\ ret'[t] = Returned("None"))]_vars

\* C9: get_thesis_details never raises: whatever the upstream did, it
\* returns a record with every key of a thesis detail.
C9_DetailsAlwaysReturnsRecord ==
    \A t \in Callers :
        (method[t] = "details" /\ pc[t] = "idle" /\ ret[t] # None)
        => /\ ret[t][1] = "return"
           /\ DOMAIN ret[t][2] = DetailFields

FetchFailed(t) ==
    /\ variant \in {"httpx", "selenium"}
    /\ Finished(t, "details")
    /\ ret[t][1] = "return"
    /\ tried[t][Len(tried[t])][2] \in
         (IF variant = "httpx" THEN {"non200", "timeout", "client"}
          ELSE {"marker", "timeout", "driver"})

\* C11: the record get_thesis_details returns after a failed fetch has the
\* requested thesis_id, strings in title and author and null in every
\* other field, whichever failure path made it.
C11_MinimalRecordShape ==
    \A t \in Callers :
        FetchFailed(t)
        => /\ ret[t][2]["thesis_id"] = Some(TheId)
           /\ ret[t][2]["title"] # None
           /\ ret[t][2]["author"] # None
           /\ \A f \in DetailFields \ {"thesis_id", "title", "author"} :
                 ret[t][2][f] = None

\* ------------------------------------------------- retry_async on its own
MaxAttempts == 3    \* the largest max_attempts of a RetryConfig
MaxDelay == 3       \* the largest max_delay of a RetryConfig
MaxBase == 2        \* the largest initial_delay and exponential_base

\* RetryConfig(max_attempts, initial_delay, max_delay, exponential_base)
\* for a backoff (the delay never shrinks: exponential_base >= 1), in
\* whole seconds
RetryConfigs ==
    [max_attempts : 0..MaxAttempts, initial_delay : 1..MaxBase,
     max_delay : 1..MaxDelay, exponential_base : 1..MaxBase]

\* The delay without the cap of max_delay.
BackoffUncapped(cfg, k) == cfg.initial_delay * Pow(cfg.exponential_base, k)
\* delay = min(config.initial_delay * (config.exponential_base ** attempt),
\*             config.max_delay)
BackoffDelay(cfg, k) ==
    IF cfg.initial_delay * Pow(cfg.exponential_base, k) < cfg.max_delay
    THEN cfg.initial_delay * Pow(cfg.exponential_base, k)
    ELSE cfg.max_delay

\* What one invocation of func does: it returns a page (maybe an empty
\* one), or it raises.  The first three exceptions are failures of the
\* transport; CancelledError is no subclass of Exception.
Transport == {"ConnectError", "TimeoutException", "HTTP500"}
Caught == Transport \cup {"HTTP404", "ValueError"}
FuncOutcomes ==
    {<<"ok", v>> : v \in {"html", ""}}
    \cup {<<"exc", e>> : e \in Caught \cup {"CancelledError"}}

\* The exception object the i-th invocation raised.
ExcOf(i) == <<calls[i][2], i>>

RetryInit ==
    /\ now = 0
    /\ min_delay = 1
    /\ RateIdle
    /\ CacheIdle
    /\ KeyIdle
    /\ ScraperIdle
    /\ PureIdle
    /\ AliasIdle
    /\ config \in RetryConfigs
    /\ attempt = 0
    /\ calls = <<>>
    /\ last_exception = None
    /\ rpc = "loop"
    /\ result = None
    /\ waits = <<>>

\* for attempt in range(config.max_attempts): try: return await func(...)
\* except Exception as e: last_exception = e, and then the sleep before
\* the next attempt, or the end of the loop
RetryInvoke(outcome) ==
    /\ rpc = "loop"
    /\ attempt < config.max_attempts
    /\ calls' = Append(calls, outcome)
    /\ IF outcome[1] = "ok"
       THEN /\ result' = Returned(outcome[2])
            /\ rpc' = "done"
            /\ UNCHANGED <<attempt, last_exception, wakeAt, waits>>
       ELSE IF outcome[2] \notin Caught
       THEN /\ result' = <<"raise", <<outcome[2], Len(calls) + 1>> >>
            /\ rpc' = "done"
            /\ UNCHANGED <<attempt, last_exception, wakeAt, waits>>
       ELSE /\ last_exception' = Some(<<outcome[2], Len(calls) + 1>>)
            /\ UNCHANGED result
            /\ IF attempt < config.max_attempts - 1
               THEN /\ wakeAt' = [wakeAt EXCEPT ![1] =
                                      now + BackoffDelay(config, attempt)]
                    /\ waits' = Append(waits, BackoffDelay(config, attempt))
                    /\ rpc' = "sleep"
                    /\ UNCHANGED attempt
               ELSE /\ attempt' = attempt + 1
                    /\ UNCHANGED <<rpc, wakeAt, waits>>
    /\ UNCHANGED <<now, min_delay, last_request_time, rl_lock, pc, rateHist,
                   cacheVars, keyVars, scrVars, config, pureVars, aliasVars>>

\* await asyncio.sleep(delay) is over: the next round of the loop
RetrySleepDone ==
    /\ rpc = "sleep"
    /\ now >= wakeAt[1]
    /\ wakeAt' = [wakeAt EXCEPT ![1] = 0]
    /\ attempt' = attempt + 1
    /\ rpc' = "loop"
    /\ UNCHANGED <<now, min_delay, last_request_time, rl_lock, pc, rateHist,
                   cacheVars, keyVars, scrVars, config, calls, last_exception,
                   result, waits, pureVars, aliasVars>>

\* The exception raised when the loop has run out.
ReRaisedFirst == IF calls # <<>> THEN ExcOf(1) ELSE <<"RuntimeError", 0>>
ReRaised ==
    IF last_exception # None THEN Val(last_exception) ELSE <<"RuntimeError", 0>>

\* after the loop: if last_exception: raise last_exception
\* else: raise RuntimeError(...)
RetryExhausted ==
    /\ rpc = "loop"
    /\ attempt >= config.max_attempts
    /\ result' = <<"raise", ReRaised>>
    /\ rpc' = "done"
    /\ UNCHANGED <<now, rateVars, pc, rateHist, cacheVars, keyVars, scrVars,
                   config, attempt, calls, last_exception, waits, pureVars,
                   aliasVars>>

\* The clock moves on while retry_async sleeps.
RetryTick ==
    /\ rpc = "sleep"
    /\ now < wakeAt[1]
    /\ now' = now + 1
    /\ UNCHANGED <<rateVars, pc, rateHist, cacheVars, keyVars, scrVars, extraVars>>

RetryNext ==
    \/ \E outcome \in FuncOutcomes : RetryInvoke(outcome)
    \/ RetrySleepDone
    \/ RetryExhausted
    \/ RetryTick

SpecRetry == RetryInit /\ [][RetryNext]_vars

\* C12: with max_attempts = n >= 1 the operation is invoked at most n
\* times, no invocation follows one that succeeded, whose result is what
\* retry_async returns, and when n invocations have failed retry_async
\* raises the exception of the n-th.
C12_RetryBoundedAndReraisesLast ==
    config.max_attempts >= 1
    => /\ Len(calls) <= config.max_attempts
       /\ \A i \in 1..(Len(calls) - 1) : calls[i][1] = "exc"
       /\ (rpc = "done" /\ calls[Len(calls)][1] = "ok"
             => result = Returned(calls[Len(calls)][2]))
       /\ (rpc = "done" /\ Len(calls) = config.max_attempts
                        /\ calls[Len(calls)][1] = "exc"
             => result = <<"raise", ExcOf(config.max_attempts)>>)

\* Three invocations failed in different ways and the third one's
\* exception came out.
C12_Witness ==
    /\ config.max_attempts = 3
    /\ rpc = "done"
    /\ Len(calls) = 3
    /\ calls[1] = <<"exc", "ConnectError">>
    /\ calls[2] = <<"exc", "TimeoutException">>
    /\ calls[3] = <<"exc", "HTTP500">>
    /\ result = <<"raise", <<"HTTP500", 3>> >>

\* C13: the operation is invoked again only after a failure of the
\* transport (connection error, timeout, 5xx), never after a failure of
\* another kind or a result that is empty.
C13_RetryOnlyTransportFailures ==
    \A i \in 2..Len(calls) :
        calls[i - 1][1] = "exc" /\ calls[i - 1][2] \in Transport

\* What get() would give for each key now: the entries that count.
Content(c) == [k \in CacheKeys |-> IF c[k] # None /\ Fresh(c[k])
                                   THEN Some(EntryValue(c[k])) ELSE None]

\* The outcomes that are a failure of the upstream for a search.
SearchFailures == {"error", "timeout", "driver"}

Calls(t) ==
    /\ started' # started
    /\ pc[t] = "idle"
    /\ \/ <<method[t], useCache[t], ret[t], pc[t]>>'
            # <<method[t], useCache[t], ret[t], pc[t]>>
       \/ \A u \in Callers \ {t} : pc[u] # "idle"

\* The cache holds an entry for the key that has not expired.
Unexpired(k) == cache[k] # None /\ now < Val(cache[k])[2]

\* C20: a search or get_thesis_details call with use_cache that finds an
\* unexpired entry for its key returns that entry and does nothing else:
\* the rate limiter (last_request_time), the session and the record of
\* upstream requests are as they were.
C20_CacheHitDoesNothingElse ==
    [][\A t \in Callers :
          (/\ Calls(t)
           /\ useCache'[t]
           /\ method'[t] \in {"search", "details"}
           /\ Unexpired(KeyOf(method'[t])))
          => /\ pc'[t] = "idle"
             /\ ret'[t] = <<"return", Val(cache[KeyOf(method'[t])])[1]>>
             /\ tried'[t] = <<>>
             /\ UNCHANGED <<last_request_time, rl_lock, wakeAt>>
             /\ UNCHANGED <<session, live, created, quits>>
             /\ UNCHANGED <<lastSend, closest>>]_vars

\* A call has been answered from the cache after a request had gone
\* through the rate limiter, and the other caller is in the middle of a
\* call of its own.
C20_Witness ==
    \E t \in Callers :
        /\ pc[t] = "idle"
        /\ useCache[t]
        /\ method[t] \in {"search", "details"}
        /\ tried[t] = <<>>
        /\ ret[t] # None
        /\ ret[t][1] = "return"
        /\ last_request_time # None
        /\ \E u \in Callers \ {t} : pc[u] # "idle"

\* -------------------------------------- the search form on its own
\* `if x:` on a value of Python
AlwaysTruthy(v) == TRUE
Truthy(v) == v # PyNone /\ v # PyS("") /\ v # PyI(0)

\* THESIS_TYPES and PERMISSION_STATUS
THESIS_TYPES == [k \in {"yuksek_lisans", "doktora", "tipta_uzmanlik", "sanatta_yeterlik"} |->
    CASE k = "yuksek_lisans" -> "1"
      [] k = "doktora" -> "2"
      [] k = "tipta_uzmanlik" -> "3"
      [] k = "sanatta_yeterlik" -> "4"]
PERMISSION_STATUS == [k \in {"izinli", "izinsiz"} |->
    IF k = "izinli" THEN "1" ELSE "0"]

\* x in TABLE, for a value of Python
InTable(v, table) == v[1] = "s" /\ v[2] \in DOMAIN table

\* language.lower()
Lower(v) == IF v = PyS("TR") THEN PyS("tr") ELSE v

\* The search fields the callers know.
KnownFields == {"tez_adi", "yazar", "danisman", "konu", "tumu"}

\* field_mapping of each class, and where a field that is not in it goes:
\* field_mapping.get(search_field, "keyword") in the httpx class, the else
\* branch form_data["tumu"] in YOKThesisScraper, the keyword input of the
\* advanced tab for "tumu" and field_mapping.get(search_field, "TezAd")
\* for everything else in _search_sync.
InputField(b, f) ==
    CASE b = "httpx" ->
           (CASE f = "tez_adi" -> "TezAd" [] f = "yazar" -> "AdSoyad"
              [] f = "danisman" -> "DanismanAdSoyad" [] f = "konu" -> "Dizin"
              [] f = "tumu" -> "keyword" [] OTHER -> "keyword")
      [] b = "base" ->
           (CASE f = "tez_adi" -> "tez_adi" [] f = "yazar" -> "yazar_adi"
              [] f = "danisman" -> "danisman" [] f = "konu" -> "konu"
              [] f = "tumu" -> "tumu" [] OTHER -> "tumu")
      [] b = "selenium" ->
           (CASE f = "tumu" -> "keyword"
              [] f = "tez_adi" -> "TezAd" [] f = "yazar" -> "AdSoyad"
              [] f = "danisman" -> "DanismanAdSoyad" [] f = "konu" -> "Dizin"
              [] OTHER -> "TezAd")

\* The names of the filters, and the form key of each in each class.
Filters == {"year_start", "year_end", "thesis_type", "university",
            "language", "permission_status"}
FilterKey(b, n) ==
    CASE n = "year_start" -> "yil1"
      [] n = "year_end" -> "yil2"
      [] n = "thesis_type" -> IF b = "base" THEN "tez_turu" ELSE "Tur"
      [] n = "university" -> IF b = "base" THEN "universite" ELSE "uniad"
      [] n = "language" -> IF b = "base" THEN "dil" ELSE "Dil"
      [] n = "permission_status" -> IF b = "base" THEN "izin_durumu" ELSE "izin"

\* Whether the filter gets into the form, and with which value.
FilterAdded(q, n) ==
    CASE n = "thesis_type" -> Truthy(q[n]) /\ InTable(q[n], THESIS_TYPES)
      [] n = "permission_status" -> Truthy(q[n]) /\ InTable(q[n], PERMISSION_STATUS)
      [] OTHER -> Truthy(q[n])
FilterValue(b, q, n) ==
    CASE n \in {"year_start", "year_end"} -> PyS(PyStr(q[n]))
      [] n = "thesis_type" -> PyS(THESIS_TYPES[q[n][2]])
      [] n = "permission_status" -> PyS(PERMISSION_STATUS[q[n][2]])
      [] n = "language" -> IF b = "base" THEN Lower(q[n]) ELSE q[n]
      [] n = "university" -> q[n]

\* The keys every form of the class has.
FixedPairs(b) ==
    IF b = "base"
    THEN {<<"searchtype", PyS("detayli")>>, <<"submit", PyS("Ara")>>}
    ELSE {<<"-find", PyS("Bul")>>, <<"submitted", PyS("1")>>}

\* _build_search_form_data(query, search_field, year_start, ...)
FormPairs(b, q) ==
    FixedPairs(b)
    \cup {<<InputField(b, q.search_field), q.query>>}
    \cup {<<FilterKey(b, n), FilterValue(b, q, n)>> : n \in {m \in Filters : FilterAdded(q, m)}}
BuildSearchFormData(b, q) ==
    [k \in {p[1] : p \in FormPairs(b, q)} |->
        (CHOOSE p \in FormPairs(b, q) : p[1] = k)[2]]

\* The requests the form is built for.
FormRequests ==
    [query : {PyS("ai")},
     search_field : KnownFields \cup {"ozet"},
     year_start : {PyNone, PyI(0), PyI(2020)},
     year_end : {PyNone, PyI(2023)},
     thesis_type : {PyNone, PyS(""), PyS("doktora"), PyS("profesor")},
     university : {PyNone, PyS(""), PyS("Ankara")},
     language : {PyNone, PyS("TR")},
     permission_status : {PyNone, PyS("izinli"), PyS("hepsi")}]

FormInit ==
    /\ now = 0
    /\ min_delay = 1
    /\ RateIdle
    /\ CacheIdle
    /\ KeyIdle
    /\ ScraperIdle
    /\ RetryIdle
    /\ AliasIdle
    /\ arg \in {Some([builder |-> b, q |-> q]) :
                   b \in {"httpx", "base", "selenium"}, q \in FormRequests}
    /\ out = None

\* form_data = self._build_search_form_data(...)
BuildForm ==
    /\ out = None
    /\ Val(arg).builder \in {"httpx", "base"}
    /\ out' = Some([input |-> InputField(Val(arg).builder, Val(arg).q.search_field),
                    form |-> BuildSearchFormData(Val(arg).builder, Val(arg).q)])
    /\ UNCHANGED <<now, rateVars, pc, rateHist, cacheVars, keyVars, scrVars,
                   retryVars, arg, aliasVars>>

\* _search_sync: the tab is chosen and the query typed into its input
FillSearchInput ==
    /\ out = None
    /\ Val(arg).builder = "selenium"
    /\ out' = Some([input |-> InputField("selenium", Val(arg).q.search_field),
                    form |-> [k \in {InputField("selenium", Val(arg).q.search_field)}
                                |-> Val(arg).q.query]])
    /\ UNCHANGED <<now, rateVars, pc, rateHist, cacheVars, keyVars, scrVars,
                   retryVars, arg, aliasVars>>

FormNext == BuildForm \/ FillSearchInput

SpecForm == FormInit /\ [][FormNext]_vars

\* C15: a form has the key of a filter only if the request supplied that
\* filter, and never with an empty value.
C15_OnlySuppliedFilters ==
    (out # None /\ Val(arg).builder \in {"httpx", "base"})
    => \A n \in Filters :
          FilterKey(Val(arg).builder, n) \in DOMAIN Val(out).form
          => /\ Val(arg).q[n] # PyNone
             /\ Val(out).form[FilterKey(Val(arg).builder, n)] # PyS("")

\* A form built for a request with some filters supplied and others not.
C15_Witness ==
    /\ out # None
    /\ Val(arg).builder = "base"
    /\ Val(arg).q.year_start = PyI(2020)
    /\ Val(arg).q.thesis_type = PyS("doktora")
    /\ Val(arg).q.university = PyNone
    /\ Val(arg).q.language = PyNone
    /\ Val(out).form["yil1"] = PyS("2020")
    /\ Val(out).form["tez_turu"] = PyS("2")
    /\ "universite" \notin DOMAIN Val(out).form
    /\ "dil" \notin DOMAIN Val(out).form

\* C16: a search field that is not one of the known ones does not fail,
\* and in every class the query goes into the input that the field "tumu"
\* uses.
C16_UnknownFieldGoesToAllFields ==
    (out # None /\ Val(arg).q.search_field \notin KnownFields)
    => Val(out).input = InputField(Val(arg).builder, "tumu")

\* ------------------------------------------------- parse_year on its own
MaxYearLen == 4     \* all strings up to this length are tried

\* A string is the sequence of its characters.
YearChars == {"0", "1", "2", "9", "-"}
YearSamples ==
    { <<"2", "0", "2", "3">>,
      <<"Y", "i", "l", ":", " ", "2", "0", "2", "0">>,
      <<"2", "0", "1", "9", "-", "2", "0", "2", "0">>,
      <<"1", "9", "5", "0">>,
      <<"2", "0", "5", "0">>,
      <<"i", "n", "v", "a", "l", "i", "d">>,
      <<"1", "9", "5", "0", " ", "2", "0", "0", "1">>,
      << >> }
YearInputs ==
    YearSamples \cup UNION {[1..n -> YearChars] : n \in 1..MaxYearLen}

\* str.isdigit on one character
IsDigit(c) == c \in {"0", "1", "2", "3", "4", "5", "6", "7", "8", "9"}
DigitValue(c) == CHOOSE d \in 0..9 : Digits[d + 1] = c

\* int(year_digits)
RECURSIVE ToInt(_)
ToInt(ds) == IF ds = <<>> THEN 0
             ELSE 10 * ToInt(SubSeq(ds, 1, Len(ds) - 1)) + DigitValue(ds[Len(ds)])

\* parse_year(year_str): None, or the year
parse_year(year_str) ==
    IF year_str = <<>> THEN None
    ELSE LET year_digits == SelectSeq(year_str, IsDigit)
         IN  IF year_digits # <<>>
                /\ 1980 <= ToInt(year_digits) /\ ToInt(year_digits) <= 2030
             THEN Some(ToInt(year_digits))
             ELSE None

YearInit ==
    /\ now = 0
    /\ min_delay = 1
    /\ RateIdle
    /\ CacheIdle
    /\ KeyIdle
    /\ ScraperIdle
    /\ RetryIdle
    /\ AliasIdle
    /\ arg \in {Some(s) : s \in YearInputs}
    /\ out = None

\* year = parse_year(text)
ParseYear ==
    /\ out = None
    /\ out' = Some(parse_year(Val(arg)))
    /\ UNCHANGED <<now, rateVars, pc, rateHist, cacheVars, keyVars, scrVars,
                   retryVars, arg, aliasVars>>

YearNext == ParseYear

SpecYear == YearInit /\ [][YearNext]_vars

\* The places of a string where a number of four digits begins, and the
\* years in 1980..2030 among those numbers, in the order of the string.
FourDigitStarts(s) ==
    {i \in 1..(Len(s) - 3) :
        /\ \A j \in i..(i + 3) : IsDigit(s[j])
        /\ (i = 1 \/ ~IsDigit(s[i - 1]))
        /\ (i + 4 > Len(s) \/ ~IsDigit(s[i + 4]))}
ValidYearStarts(s) ==
    {i \in FourDigitStarts(s) :
        /\ 1980 <= ToInt(SubSeq(s, i, i + 3))
        /\ ToInt(SubSeq(s, i, i + 3)) <= 2030}
FirstValidYear(s) ==
    IF ValidYearStarts(s) = {} THEN None
    ELSE LET i == CHOOSE k \in ValidYearStarts(s) : \A m \in ValidYearStarts(s) : k <= m
         IN  Some(ToInt(SubSeq(s, i, i + 3)))

\* C18: parse_year gives the first number of four digits of its input
\* that lies in 1980..2030, and null when the input has no digits or no
\* such year; it never gives a number outside 1980..2030.
C18_FirstValidYear ==
    out # None
    => /\ Val(out) = FirstValidYear(Val(arg))
       /\ (Val(out) # None => 1980 <= Val(Val(out)) /\ Val(Val(out)) <= 2030)

\* ------------------------------------- the result parsers on their own
MaxRows == 2        \* rows of the rendered table
MaxDocs == 3        \* doc blocks embedded in the page
MaxResults == 2     \* the largest max_results

\* A row of the rendered table has all its cells or fewer than six; a doc
\* block has its fields or neither a thesis id nor a title.
RowKinds == {"full", "short"}
DocKinds == {"full", "blank"}

\* What the i-th row of the table gives: thesis_data of _parse_search_results
RowData(i) ==
    [thesis_id |-> "1" \o NatStr(i), author |-> "Mehmet Demir",
     year |-> parse_year(<<"2", "0", "2", "2">>), title |-> "Tez " \o NatStr(i),
     thesis_type |-> "Doktora", university |-> "", language |-> None]

\* What the i-th doc block gives: the dict of _parse_all_results_from_js
DocData(i) ==
    [thesis_id |-> "1" \o NatStr(i), author |-> "Mehmet Demir", year |-> "2022",
     title |-> "Tez " \o NatStr(i), title_tr |-> "", thesis_type |-> "Doktora",
     subject |-> ""]

\* for row in rows[:max_results]: if len(cells) < 6: continue ...
\* results.append(thesis_data)
RECURSIVE ParseRows(_, _, _)
ParseRows(table, i, max_results) ==
    IF i > Len(table) \/ i > max_results THEN <<>>
    ELSE (IF table[i] = "full" THEN <<RowData(i)>> ELSE <<>>)
         \o ParseRows(table, i + 1, max_results)

\* for block in doc_blocks: ... if thesis_id or title: results.append({...})
RECURSIVE ParseDocs(_, _)
ParseDocs(docs, i) ==
    IF i > Len(docs) THEN <<>>
    ELSE (IF docs[i] = "full" THEN <<DocData(i)>> ELSE <<>>)
         \o ParseDocs(docs, i + 1)

\* _parse_search_results(html, max_results) of both classes reads the
\* table; _parse_all_results_from_js(html) reads the doc blocks.
ParseSearchResults(page, max_results) == ParseRows(page.table, 1, max_results)
ParseAllResultsFromJs(page) == ParseDocs(page.docs, 1)

\* The parser each method hands its page to.
Parsers == {"selenium.search", "httpx.search", "selenium.advanced_search"}

Pages ==
    [table : UNION {[1..n -> RowKinds] : n \in 0..MaxRows},
     docs : UNION {[1..n -> DocKinds] : n \in 0..MaxDocs}]

ResultsInit ==
    /\ now = 0
    /\ min_delay = 1
    /\ RateIdle
    /\ CacheIdle
    /\ KeyIdle
    /\ ScraperIdle
    /\ RetryIdle
    /\ AliasIdle
    /\ arg \in {Some([parser |-> p, page |-> g, max_results |-> m]) :
                   p \in Parsers, g \in Pages, m \in 1..MaxResults}
    /\ out = None

\* results = self._parse_search_results(html, max_results)
ParseTable ==
    /\ out = None
    /\ Val(arg).parser \in {"selenium.search", "httpx.search"}
    /\ out' = Some(ParseSearchResults(Val(arg).page, Val(arg).max_results))
    /\ UNCHANGED <<now, rateVars, pc, rateHist, cacheVars, keyVars, scrVars,
                   retryVars, arg, aliasVars>>

\* results = self._parse_all_results_from_js(html)
ParseJs ==
    /\ out = None
    /\ Val(arg).parser = "selenium.advanced_search"
    /\ out' = Some(ParseAllResultsFromJs(Val(arg).page))
    /\ UNCHANGED <<now, rateVars, pc, rateHist, cacheVars, keyVars, scrVars,
                   retryVars, arg, aliasVars>>

ResultsNext == ParseTable \/ ParseJs

SpecResults == ResultsInit /\ [][ResultsNext]_vars

\* C17: for a page with both the rendered table and doc blocks the parser
\* of the search results returns one record for each doc block, made from
\* that block.
C17_ResultsFromDocBlocks ==
    (/\ out # None
     /\ Val(arg).page.table # <<>>
     /\ Val(arg).page.docs # <<>>)
    => /\ Len(Val(out)) = Len(Val(arg).page.docs)
       /\ \A i \in 1..Len(Val(out)) : Val(out)[i] = DocData(i)

\* ------------------------------- the cache and the objects it refers to
MaxObjects == 3     \* result objects made in one run
MaxItems == 2       \* items a result list can hold

\* What a result list can hold when the scraper has made it.
Items == {"r1", "r2"}
FreshResults == UNION {[1..n -> Items] : n \in 0..1}

AliasInit ==
    /\ now = 0
    /\ min_delay = 1
    /\ RateIdle
    /\ CacheIdle
    /\ KeyIdle
    /\ ScraperIdle
    /\ RetryIdle
    /\ PureIdle
    /\ AliasIdle

\* search / get_thesis_details with use_cache, nothing cached under the
\* key: the result is a new object; self.cache.set(cache_key, results)
\* puts that object into the cache (a search does so only when the list
\* is not empty), and the same object is returned
AliasMiss(k, results) ==
    /\ refs[k] = None
    /\ Len(heap) < MaxObjects
    /\ heap' = Append(heap, results)
    /\ held' = Some(Len(heap) + 1)
    /\ IF results # <<>>
       THEN /\ refs' = [refs EXCEPT ![k] = Some(Len(heap) + 1)]
            /\ stored' = [stored EXCEPT ![k] = Some(results)]
       ELSE UNCHANGED <<refs, stored>>
    /\ UNCHANGED <<now, rateVars, pc, rateHist, cacheVars, keyVars, scrVars,
                   retryVars, pureVars>>

\* cached_result = await self.cache.get(cache_key); return cached_result:
\* value, expiry = self._cache[key]; return value
AliasHit(k) ==
    /\ refs[k] # None
    /\ held' = refs[k]
    /\ UNCHANGED <<now, rateVars, pc, rateHist, cacheVars, keyVars, scrVars,
                   retryVars, pureVars, heap, refs, stored>>

\* the caller changes the list it got: results.append(x) / results.clear()
CallerAppends(x) ==
    /\ held # None
    /\ Len(heap[Val(held)]) < MaxItems
    /\ heap' = [heap EXCEPT ![Val(held)] = Append(@, x)]
    /\ UNCHANGED <<now, rateVars, pc, rateHist, cacheVars, keyVars, scrVars,
                   retryVars, pureVars, refs, held, stored>>
CallerClears ==
    /\ held # None
    /\ heap[Val(held)] # <<>>
    /\ heap' = [heap EXCEPT ![Val(held)] = <<>>]
    /\ UNCHANGED <<now, rateVars, pc, rateHist, cacheVars, keyVars, scrVars,
                   retryVars, pureVars, refs, held, stored>>

\* await self.cache.clear()
AliasClear ==
    /\ \E k \in CacheKeys : refs[k] # None
    /\ refs' = [k \in CacheKeys |-> None]
    /\ stored' = [k \in CacheKeys |-> None]
    /\ UNCHANGED <<now, rateVars, pc, rateHist, cacheVars, keyVars, scrVars,
                   retryVars, pureVars, heap, held>>

AliasNext ==
    \/ \E k \in CacheKeys, results \in FreshResults : AliasMiss(k, results)
    \/ \E k \in CacheKeys : AliasHit(k)
    \/ \E x \in Items : CallerAppends(x)
    \/ CallerClears
    \/ AliasClear

SpecAlias == AliasInit /\ [][AliasNext]_vars

\* C19: whatever a caller does to a value it got back, a cache hit gives
\* the value as it was when it was stored.
C19_CachedValueUntouched ==
    \A k \in CacheKeys :
        refs[k] # None => heap[Val(refs[k])] = Val(stored[k])

\* ------------------------------------------- what a search leaves cached
\* C21: when a search with use_cache has missed the cache and returns
\* without error, the cache holds under the query's key the result that is
\* returned, whatever the result, the empty list included.
C21_SearchResultCached ==
    [][\A t \in Callers :
          (/\ pc[t] # "idle" /\ pc'[t] = "idle"
           /\ method[t] = "search"
           /\ useCache[t]
           /\ ret'[t][1] = "return")
          => /\ cache'[SearchKey] # None
             /\ EntryValue(cache'[SearchKey]) = ret'[t][2]]_vars

\* ---------------------------------------------- the warm-up of a client
\* C22 (HTTP variant): a search or detail request goes out on a client
\* only when the warm-up GET on that client is over, however the first
\* calls interleave.
C22_RequestAfterWarmup ==
    [][\A t \in Callers :
          (/\ variant = "httpx"
           /\ pc[t] = "request" /\ pc'[t] = "response")
          => \A u \in Callers : warm[u] # sess[t]]_vars

\* ------------------------------------------- the waits of retry_async
\* The smaller of two numbers.
Min(a, b) == IF a < b THEN a ELSE b

\* The invocations that failed with an exception retry_async catches.
FailedAttempts ==
    {i \in 1..Len(calls) : calls[i][1] = "exc" /\ calls[i][2] \in Caught}

TrickyValues(name) ==
    CASE name = "university" -> {PyNone, PyS("None"), PyS("itu"), PyS("itu:tr")}
      [] name = "language" -> {PyNone, PyS("None"), PyS("tr")}
      [] name = "year_start" -> {PyNone, PyI(2020)}
      [] name = "max_results" -> {PyI(20), PyI(5)}
      [] name = "thesis_id" -> {PyS("123456"), PyS("7"), PyS("7:1")}
      [] OTHER -> {DefaultOf(name)}

TrickyRequests(op) ==
    IF op = "search"
    THEN [query : {PyS("ai")},
          search_field : TrickyValues("search_field"),
          year_start : TrickyValues("year_start"),
          year_end : TrickyValues("year_end"),
          thesis_type : TrickyValues("thesis_type"),
          university : TrickyValues("university"),
          language : TrickyValues("language"),
          permission_status : TrickyValues("permission_status"),
          max_results : TrickyValues("max_results")]
    ELSE [thesis_id : TrickyValues("thesis_id")]

DistinctInit ==
    /\ now = 0
    /\ min_delay = 1
    /\ RateIdle
    /\ CacheIdle
    /\ ScraperIdle
    /\ ExtraIdle
    /\ keyOp \in {"search", "detail"}
    /\ \E qa, qb \in TrickyRequests(keyOp) :
          /\ qa # qb
          /\ callA = CallOf(keyOp, qa, Positional(keyOp))
          /\ callB = CallOf(keyOp, qb, Positional(keyOp))
    /\ keys = None

DistinctNext == BuildKeys

SpecDistinct == DistinctInit /\ [][DistinctNext]_vars

\* C24: two calls that differ in a parameter value get different cache
\* keys, also when a text has a colon in it or is the text "None".
C24_DistinctRequestsDistinctKeys ==
    (keys # None /\ callA.pos # callB.pos) => Val(keys)[1] # Val(keys)[2]

\* --------------------------------------- what a failed detail fetch stores
\* C25: get_thesis_details writes to the cache only a record parsed from
\* a page it fetched: when it returns the placeholder record because the
\* fetch failed, it has written nothing under the key of the thesis id.
C25_FailedDetailsNotCached ==
    [][\A t \in Callers :
          (pc[t] # "idle" /\ useCache[t] /\ FetchFailed(t)')
          => cache'[DetailKey] = cache[DetailKey]]_vars

\* ------------------------------------------------ the ttl a set() is given
\* C26: set(key, value, ttl) uses the given ttl whenever it is not None,
\* ttl = 0 included (the entry is expired at once); default_ttl is used
\* for a ttl of None only.
C26_SetUsesGivenTtl ==
    \A k \in CacheKeys :
        (lastSet[k] # None /\ cache[k] # None)
        => EntryExpiry(cache[k])
             = Val(lastSet[k])[2] + GivenTtl(Val(lastSet[k])[3])

\* ------------------------------------------ the rows the table parser takes
\* The rows of the table that have all their cells, in document order.
ValidRows(table) ==
    SelectSeq([i \in 1..Len(table) |-> i], LAMBDA i : table[i] = "full")

\* C27: the table parser returns the first min(max_results, V) valid rows
\* in document order, V being the number of rows with the required cells;
\* a row skipped for having too few cells does not count against
\* max_results.
C27_FirstValidRows ==
    (out # None /\ Val(arg).parser \in {"selenium.search", "httpx.search"})
    => LET valid == ValidRows(Val(arg).page.table)
           n == IF Val(arg).max_results < Len(valid)
                THEN Val(arg).max_results ELSE Len(valid)
       IN  Val(out) = [j \in 1..n |-> RowData(valid[j])]

\* ------------------------------------- the detail parsers on their own
\* The ids asked for, and what a row of the detail table can say.
ThesisIds == {"7", "8"}
RowTexts(l) ==
    CASE l = "Tez No" -> ThesisIds
      [] l = "Tez Adi" -> {"Derin Ogrenme", "Yapay Zeka"}
      [] l = "Yazar" -> {"Mehmet Demir", "Ayse Kaya"}

\* The detail tables a page can carry: any of the three rows, or none.
DetailTables ==
    UNION {[ls -> UNION {RowTexts(l) : l \in ls}] :
              ls \in SUBSET {"Tez No", "Tez Adi", "Yazar"}}
DetailPages == {rows \in DetailTables : \A l \in DOMAIN rows : rows[l] \in RowTexts(l)}

\* What the modal of the browser variant shows of such a page: the lines
\* the parser reads, which do not include the thesis number.
ModalOf(rows) ==
    [f \in {KeyMapping[l] : l \in DOMAIN rows \ {"Tez No"}} |->
        rows[CHOOSE l \in DOMAIN rows : KeyMapping[l] = f]]

DetailInit ==
    /\ now = 0
    /\ min_delay = 1
    /\ RateIdle
    /\ CacheIdle
    /\ KeyIdle
    /\ ScraperIdle
    /\ RetryIdle
    /\ AliasIdle
    /\ arg \in {Some([parser |-> p, rows |-> r, thesis_id |-> i]) :
                   p \in Variants, r \in DetailPages, i \in ThesisIds}
    /\ out = None

\* details = self._parse_thesis_detail(response.text, thesis_id); ...
\* return details
ParseHttpxDetail ==
    /\ out = None
    /\ Val(arg).parser = "httpx"
    /\ out' = Some(Returned(ParseDetailHttpx(Val(arg).rows, Val(arg).thesis_id)))
    /\ UNCHANGED <<now, rateVars, pc, rateHist, cacheVars, keyVars, scrVars,
                   retryVars, arg, aliasVars>>

\* details = self._parse_modal_content_enhanced(modal_html, thesis_id);
\* return details
ParseSeleniumDetail ==
    /\ out = None
    /\ Val(arg).parser = "selenium"
    /\ out' = Some(Returned(ParseModal(ModalOf(Val(arg).rows),
                                       Val(arg).thesis_id)))
    /\ UNCHANGED <<now, rateVars, pc, rateHist, cacheVars, keyVars, scrVars,
                   retryVars, arg, aliasVars>>

\* details = self._parse_thesis_detail(html)
\* if not details: raise YOKThesisScraperError(...) ... return details
ParseBaseDetail ==
    /\ out = None
    /\ Val(arg).parser = "base"
    /\ out' = Some(IF DOMAIN ParseDetailBase(Val(arg).rows) = {} THEN Raised
                   ELSE Returned(ParseDetailBase(Val(arg).rows)))
    /\ UNCHANGED <<now, rateVars, pc, rateHist, cacheVars, keyVars, scrVars,
                   retryVars, arg, aliasVars>>

DetailNext == ParseHttpxDetail \/ ParseSeleniumDetail \/ ParseBaseDetail

SpecDetail == DetailInit /\ [][DetailNext]_vars

\* C28: whatever the page says, the record made for get_thesis_details(id)
\* has thesis_id = id; a "Tez No" row of the page does not replace it.
C28_RecordKeepsRequestedId ==
    (out # None /\ Val(out)[1] = "return")
    => /\ "thesis_id" \in DOMAIN Val(out)[2]
       /\ Val(out)[2]["thesis_id"] = Some(Val(arg).thesis_id)

\* ------------------------------------------ advanced_search on its own
\* Where the browser steps of _advanced_search_sync go wrong, if anywhere:
\* no driver, the page does not load, the tab or the form is not there,
\* the submit fails.
BrowserSteps == {"none", "driver", "navigate", "tab", "form", "submit"}

\* The number in "N kayit bulundu" on the result page, if it is there.
TotalTexts == {None, Some(5)}

\* A value of Python with its type: a dict or a list.
PyDict(d) == <<"dict", d>>
PyList(l) == <<"list", l>>

\* _advanced_search_sync(params): the driver is taken before the try; in
\* the try, a failed step ends in `return []`, and a page that was read in
\* `return {"results": results, "total_found": total_found}`.
\* advanced_search returns what it gets and turns an exception into
\* YOKThesisScraperError.
AdvancedSearchResult(fails, docs, total) ==
    IF fails = "driver" THEN Raised
    ELSE IF fails # "none" THEN Returned(PyList(<<>>))
    ELSE Returned(PyDict([results |-> ParseDocs(docs, 1),
                          total_found |-> IF total = None THEN 0 ELSE Val(total)]))

AdvancedInit ==
    /\ now = 0
    /\ min_delay = 1
    /\ RateIdle
    /\ CacheIdle
    /\ KeyIdle
    /\ ScraperIdle
    /\ RetryIdle
    /\ AliasIdle
    /\ arg \in {Some([fails |-> s, docs |-> d, total |-> n]) :
                   s \in BrowserSteps,
                   d \in UNION {[1..n -> DocKinds] : n \in 0..MaxDocs},
                   n \in TotalTexts}
    /\ out = None

\* data = await scraper.advanced_search(request.dict())
AdvancedSearch ==
    /\ out = None
    /\ out' = Some(AdvancedSearchResult(Val(arg).fails, Val(arg).docs,
                                        Val(arg).total))
    /\ UNCHANGED <<now, rateVars, pc, rateHist, cacheVars, keyVars, scrVars,
                   retryVars, arg, aliasVars>>

AdvancedNext == AdvancedSearch

SpecAdvanced == AdvancedInit /\ [][AdvancedNext]_vars

\* C29: what advanced_search returns is on every path a mapping with the
\* keys 'results' and 'total_found', when the browser steps succeed and
\* when one of them fails.
C29_AdvancedSearchShape ==
    (out # None /\ Val(out)[1] = "return")
    => /\ Val(out)[2][1] = "dict"
       /\ DOMAIN Val(out)[2][2] = {"results", "total_found"}

\* --------------------------------------- a browser launched after close()
\* C30 (browser variant): a call that was in progress when a close()
\* returned launches no browser; a browser is launched only by a call
\* that began after the last close() returned.
C30_NoLaunchAfterClose ==
    [][\A t \in Callers :
          (/\ variant = "selenium"
           /\ created' = created + 1
           /\ sess'[t] = Some(created + 1))
          => ~stale[t]]_vars
====
